---- MODULE Spec2Model ----
(***************************************************************************)
(* Provisioning and promotion sequencing of the BookStack CDK application: *)
(* the declarations of cdk/src (registry, data stack, application stack,   *)
(* regional stage, pipeline) and the pipeline run that builds, synthesizes *)
(* and deploys them stack by stack.                                        *)
(***************************************************************************)
EXTENDS Integers, Sequences, FiniteSets, TLC

(***************************************************************************)
(* Bounds of the model.                                                    *)
(***************************************************************************)
\* number of pipeline runs (pushes) explored
MaxRuns == 3

(***************************************************************************)
(* The state: the pipeline run and the control plane.                      *)
(***************************************************************************)
VARIABLES
  pipe,         \* "idle", "build", "deploy", "succeeded", "halted", "failed"
  runs,         \* number of pipeline runs started
  headRev,      \* revision of the service declaration at the pushed commit
  headTag,      \* image tag at the pushed commit
  executed,     \* build commands run so far in this run, with exit codes
  stackStatus,  \* per stack: "pending", "inProgress", "complete", "failed"
  outcome,      \* "none", "Promoted", "RolledBack"
  live,         \* per stack: the provisioned resources by logical id
  applied,      \* per stack: the source last applied to it
  changes,      \* what this run created, updated, replaced or deleted
  visited,      \* the deployment states this run went through
  prev,         \* the control plane's state when this run started
  health,       \* target health check of this run: "unknown", "passed", "failed"
  cert,         \* per run: DNS validation of the certificate the run requested
  eval,         \* a declaration function applied outside a pipeline run, with its inputs
  account,      \* the account the app is synthesized for (app.account)
  vpcFound,     \* whether Vpc.fromLookup resolves the VPC in this run
  declared,     \* per stack: the resources its constructor declared in the synthesis of this run
  statusCode,   \* status code the target answered the health check of this run with; 0: none
  wave          \* per further stage sharing the wave, per stack: its status

vars == <<pipe, runs, headRev, headTag, executed, stackStatus, outcome, live, applied,
          changes, visited, prev, health, cert, eval, account, vpcFound, declared, statusCode, wave>>

(***************************************************************************)
(* globals.mts: the configuration registry.                                *)
(***************************************************************************)
AwsRegion == [Virginia |-> "us-east-1", Ohio |-> "us-east-2", Oregon |-> "us-west-2"]

Vpc == [DevOregon |-> "vpc-06f99c19165a865f5"]

\* strings the code takes apart are kept as sequences of symbols, the dot a
\* symbol of its own
AppUrl == [DevOregon |-> <<"bookstack", ".", "pjain", ".", "dev", ".", "truemark", ".", "io">>]

AwsAccount == [Dev |-> "659932761532"]

Zone == [Dev |-> <<"pjain", ".", "dev", ".", "truemark", ".", "io">>]

(***************************************************************************)
(* Values of a declaration are tokens: a literal, or a reference to an     *)
(* attribute of a declared resource that the control plane resolves when   *)
(* the stack is provisioned.                                               *)
(***************************************************************************)
Lit(v) == [stack |-> "", id |-> "", attr |-> v]

Ref(stack, id, attr) == [stack |-> stack, id |-> id, attr |-> attr]

\* RemovalPolicy values; "undefined" is an omitted optional prop
RemovalPolicy == [DESTROY |-> "destroy", RETAIN |-> "retain", SNAPSHOT |-> "snapshot"]

\* props?.removalPolicy ?? RemovalPolicy.DESTROY
OrDestroy(p) == IF p = "undefined" THEN RemovalPolicy.DESTROY ELSE p

\* ec2.Peer.*
PeerAnyIpv4 == [kind |-> "ipv4", value |-> "0.0.0.0/0"]

PeerVpcCidr(vpcId) == [kind |-> "vpcCidr", value |-> vpcId]

PeerSecurityGroup(id) == [kind |-> "sg", value |-> id]

IngressRule(peer, port) == [peer |-> peer, port |-> port]

(***************************************************************************)
(* data-stack.mts: DataStack.  The declared resources by logical id.       *)
(***************************************************************************)
\* the database port opened to any address
DbIngressOpen == {IngressRule(PeerAnyIpv4, 3306)}

\* dbSecurityGroup.addIngressRule(ec2.Peer.ipv4(vpc.vpcCidrBlock), ec2.Port.tcp(3306))
DbIngress == {IngressRule(PeerVpcCidr(Vpc.DevOregon), 3306)}

\* credentials: rds.Credentials.fromGeneratedSecret('bookstack'), a secret of
\* the cluster's own next to DatabaseSecret
ClusterCredentialsGenerated(id) == Ref(id, "AuroraClusterSecret", "secret")

\* credentials: rds.Credentials.fromSecret(this.databaseSecret)
ClusterCredentials(id) == Ref(id, "DatabaseSecret", "secret")

\* deletion protection only for a cluster that is kept on teardown
DeletionProtectionIfKept(props) == OrDestroy(props.removalPolicy) # RemovalPolicy.DESTROY

\* deletionProtection: true
DeletionProtection(props) == TRUE

\* the secret following the policy the stack is passed
SecretRemovalPolicyPassed(props) == OrDestroy(props.removalPolicy)

\* removalPolicy: RemovalPolicy.RETAIN
SecretRemovalPolicy(props) == RemovalPolicy.RETAIN

DataStack(id, props) ==
  "DatabaseSecret" :>
      [type |-> "Secret",
       usernameTemplate |-> "bookstack",
       generateStringKey |-> "password",
       excludePunctuation |-> TRUE,
       includeSpace |-> FALSE,
       passwordLength |-> 32,
       removalPolicy |-> SecretRemovalPolicy(props)]
  @@ "DBSecurityGroup" :>
      [type |-> "SecurityGroup",
       vpc |-> Vpc.DevOregon,
       allowAllOutbound |-> TRUE,
       removalPolicy |-> OrDestroy(props.removalPolicy),
       ingress |-> DbIngress]
  @@ "ParameterGroup" :>
      [type |-> "ParameterGroup",
       engine |-> "aurora-mysql-3.11.0",
       removalPolicy |-> OrDestroy(props.removalPolicy)]
  @@ "AuroraCluster" :>
      [type |-> "DatabaseCluster",
       engine |-> "aurora-mysql-3.11.0",
       credentials |-> ClusterCredentials(id),
       defaultDatabaseName |-> "bookstack",
       vpc |-> Vpc.DevOregon,
       subnetType |-> "PRIVATE_ISOLATED",
       storageEncrypted |-> TRUE,
       securityGroups |-> {"DBSecurityGroup"},
       parameterGroup |-> "ParameterGroup",
       serverlessV2MinCapacity |-> 0,
       serverlessV2MaxCapacity |-> 1,
       writer |-> [instanceIdentifier |-> "bookstack-writer-01",
                   publiclyAccessible |-> FALSE,
                   allowMajorVersionUpgrade |-> FALSE,
                   autoMinorVersionUpgrade |-> FALSE],
       backupRetentionDays |-> 7,
       backupPreferredWindow |-> "03:00-04:00",
       preferredMaintenanceWindow |-> "sun:04:00-sun:05:00",
       removalPolicy |-> OrDestroy(props.removalPolicy),
       deletionProtection |-> DeletionProtection(props)]

(***************************************************************************)
(* app-stack.mts: BookStack, in the revisions of the service declaration   *)
(* the repository holds.                                                   *)
(*   "ssmOnly"   service with APP_KEY from SSM, no network edge            *)
(*   "plainKey"  network edge added, APP_KEY as a literal environment value*)
(*   "head"      the current declaration                                   *)
(***************************************************************************)
Revisions == {"ssmOnly", "plainKey", "head"}

HasEdge(rev) == rev \in {"plainKey", "head"}

\* the image reference of the service; the tag is the part a promotion edits
ContainerImage(tag) == [registry |-> "ghcr.io/linuxserver/bookstack", tag |-> tag]

\* environment: {...} of BookstackService
ServiceEnvironment(rev, id, props) ==
  LET common ==
        "APP_LANG" :> Lit("en")
        @@ "APP_URL" :> (IF rev = "ssmOnly"
                         THEN Lit(AppUrl.DevOregon)
                         ELSE Lit(<<"https://">> \o AppUrl.DevOregon))
        @@ "DB_HOST" :> props.databaseHost
        @@ "DB_USERNAME" :> Lit("bookstack")
        @@ "DB_DATABASE" :> Lit("bookstack")
        @@ "STORAGE_TYPE" :> Lit("s3")
        @@ "STORAGE_S3_BUCKET" :> Ref(id, "AssetsBucket", "bucketName")
        @@ "STORAGE_S3_REGION" :> Lit(props.env.region)
  IN IF rev = "plainKey"
     THEN common @@ "APP_KEY" :> Lit("base64:dfaME0JYNQ4u3NI4YfFkcLUv4Vm19TYGL/43Kl0UZ0A=")
     ELSE common

\* ecs.Secret.fromSecretsManager(dbSecret, 'password')
DbPasswordSecret(props) ==
  [store |-> "secretsmanager", ref |-> props.databaseSecretName, key |-> "password"]

\* ecs.Secret.fromSsmParameter(appKeyParameter)
AppKeySecret == [store |-> "ssm", ref |-> Lit("/app/bookstack/app_key"), key |-> ""]

\* the service with the database password as its only secret binding
ServiceSecretsPasswordOnly(rev, props) == "DB_PASSWORD" :> DbPasswordSecret(props)

\* secrets: {...} of BookstackService
ServiceSecrets(rev, props) ==
  IF rev = "plainKey"
  THEN "DB_PASSWORD" :> DbPasswordSecret(props)
  ELSE "DB_PASSWORD" :> DbPasswordSecret(props) @@ "APP_KEY" :> AppKeySecret

\* grants on the task execution role: the reads a secret binding brings with
\* it, and the explicit grants at the end of the constructor
ExecutionRoleGrants(rev, props) ==
  {[action |-> "logs:write", on |-> Lit("*")],
   [action |-> "image:pull", on |-> Lit("*")]}
  \cup {[action |-> "secret:read", on |-> ServiceSecrets(rev, props)[n].ref] :
          n \in DOMAIN ServiceSecrets(rev, props)}
  \cup (IF HasEdge(rev)
        THEN {[action |-> "s3:readwrite", on |-> Lit("AssetsBucket")],
              [action |-> "s3:putacl", on |-> Lit("AssetsBucket")]}
        ELSE {})

\* grants on the task role: the constructor makes none
TaskRoleGrants(rev, props) == {}

\* the load balancer's security group: two explicit rules, and open: true of
\* both listeners
AlbIngress ==
  {IngressRule(PeerAnyIpv4, 80), IngressRule(PeerAnyIpv4, 443)}

\* the container port opened to any address instead of to the load balancer
ServiceIngressOpen(rev) ==
  IF HasEdge(rev) THEN {IngressRule(PeerAnyIpv4, 80)} ELSE {}

\* serviceSecurityGroup.addIngressRule(albSecurityGroup, ec2.Port.tcp(80))
ServiceIngress(rev) ==
  IF HasEdge(rev)
  THEN {IngressRule(PeerSecurityGroup("AlbSecurityGroup"), 80)}
  ELSE {}

\* a port-80 listener that forwards to the service
HttpListenerForward ==
  [type |-> "Listener",
   loadBalancer |-> "Alb",
   port |-> 80,
   open |-> TRUE,
   defaultAction |-> [kind |-> "forward", protocol |-> "HTTP",
                      port |-> 80, permanent |-> FALSE],
   certificates |-> {},
   targets |-> {[service |-> "BookstackService", port |-> 80,
                 healthCheckPath |-> "/", healthyLow |-> 200, healthyHigh |-> 399]}]

\* the port-80 listener
HttpListener ==
  [type |-> "Listener",
   loadBalancer |-> "Alb",
   port |-> 80,
   open |-> TRUE,
   defaultAction |-> [kind |-> "redirect", protocol |-> "HTTPS",
                      port |-> 443, permanent |-> TRUE],
   certificates |-> {},
   targets |-> {}]

\* the load balancer's default matcher, 200 only
HealthyHttpCodesDefault == [low |-> 200, high |-> 200]

\* healthyHttpCodes: '200-399', a range of status codes
HealthyHttpCodes == [low |-> 200, high |-> 399]

\* the port-443 listener and its addTargets('EcsTargets', ...)
HttpsListener ==
  [type |-> "Listener",
   loadBalancer |-> "Alb",
   port |-> 443,
   open |-> TRUE,
   defaultAction |-> [kind |-> "forward", protocol |-> "HTTP",
                      port |-> 80, permanent |-> FALSE],
   certificates |-> {"AppCertificate"},
   targets |-> {[service |-> "BookstackService", port |-> 80,
                 healthCheckPath |-> "/",
                 healthyLow |-> HealthyHttpCodes.low,
                 healthyHigh |-> HealthyHttpCodes.high]}]

\* a cluster name stamped with the run that synthesized it
ClusterNameStamped == <<"bookstack-cluster", runs>>

ClusterName == <<"bookstack-cluster">>

\* resources every revision declares
\* the service without deployment rollback
EnableRollbackOff == FALSE

EnableRollback == TRUE

BookStackCore(rev, id, props, tag) ==
  "AssetsBucket" :>
      [type |-> "Bucket",
       removalPolicy |-> OrDestroy(props.removalPolicy),
       autoDeleteObjects |-> TRUE,
       publicReadAccess |-> FALSE,
       blockPublicAccess |-> [blockPublicAcls |-> FALSE,
                              blockPublicPolicy |-> TRUE,
                              ignorePublicAcls |-> FALSE,
                              restrictPublicBuckets |-> TRUE]]
  @@ "Cluster" :>
      [type |-> "FargateCluster",
       vpc |-> props.vpcId,
       clusterName |-> ClusterName,
       containerInsights |-> FALSE,
       enableExecuteCommandLog |-> TRUE]
  @@ "BookstackService" :>
      [type |-> "FargateService",
       cluster |-> "Cluster",
       serviceName |-> "bookstack-service",
       image |-> ContainerImage(tag),
       port |-> 80,
       cpu |-> 1024,
       memoryLimitMiB |-> 2048,
       desiredCount |-> 1,
       subnetType |-> "PRIVATE_ISOLATED",
       environment |-> ServiceEnvironment(rev, id, props),
       secrets |-> ServiceSecrets(rev, props),
       enableRollback |-> EnableRollback,
       enableExecuteCommand |-> TRUE,
       cpuArchitecture |-> "ARM64"]
  @@ "ServiceSecurityGroup" :>
      [type |-> "SecurityGroup",
       vpc |-> props.vpcId,
       ingress |-> ServiceIngress(rev)]
  @@ "ExecutionRole" :>
      [type |-> "Role",
       grants |-> ExecutionRoleGrants(rev, props)]
  @@ "TaskRole" :>
      [type |-> "Role",
       grants |-> TaskRoleGrants(rev, props)]

\* String.prototype.indexOf: the first position of pat in s, 0 when absent
IndexOf(s, pat) ==
  LET hits == {i \in 1..(Len(s) - Len(pat) + 1) : SubSeq(s, i, i + Len(pat) - 1) = pat}
  IN IF hits = {} THEN 0 ELSE CHOOSE i \in hits : \A j \in hits : i <= j

\* String.prototype.replace with a string pattern: the first occurrence only
Replace(s, pat, by) ==
  LET i == IndexOf(s, pat)
  IN IF i = 0 THEN s
     ELSE SubSeq(s, 1, i - 1) \o by \o SubSeq(s, i + Len(pat), Len(s))

\* AppUrl.DevOregon.replace(`.${props.zone}`, '')
RecordName(host, zone) == Replace(host, <<".">> \o zone, <<>>)

\* an alias record named after the release (the image tag)
AppAliasRecordTagged(id, props) ==
  [type |-> "ARecord",
   zone |-> props.zone,
   recordName |-> <<headTag>> \o RecordName(AppUrl.DevOregon, props.zone),
   target |-> Ref(id, "Alb", "alias")]

\* new route53.ARecord(this, 'AppAliasRecord', ...)
AppAliasRecord(id, props) ==
  [type |-> "ARecord",
   zone |-> props.zone,
   recordName |-> RecordName(AppUrl.DevOregon, props.zone),
   target |-> Ref(id, "Alb", "alias")]

\* the network edge: load balancer, listeners, certificate, alias record
\* a wildcard certificate for the zone passed
AppCertificateWildcard(rev, props) ==
  [type |-> "Certificate",
   domainName |-> <<"*", ".">> \o props.zone,
   validation |-> "dns",
   hostedZone |-> props.zone]

AppCertificate(rev, props) ==
  [type |-> (IF rev = "plainKey" THEN "DnsValidatedCertificate" ELSE "Certificate"),
   domainName |-> AppUrl.DevOregon,
   validation |-> "dns",
   hostedZone |-> props.zone]

BookStackEdge(rev, id, props) ==
  "AlbSecurityGroup" :>
      [type |-> "SecurityGroup",
       vpc |-> props.vpcId,
       ingress |-> AlbIngress]
  @@ "Alb" :>
      [type |-> "LoadBalancer",
       vpc |-> props.vpcId,
       internetFacing |-> TRUE,
       securityGroup |-> "AlbSecurityGroup",
       subnetType |-> "PUBLIC"]
  @@ "HttpListener" :> HttpListener
  @@ "AppCertificate" :> AppCertificate(rev, props)
  @@ "HttpsListener" :> HttpsListener
  @@ "AppAliasRecord" :> AppAliasRecord(id, props)

BookStack(rev, id, props, tag) ==
  IF HasEdge(rev)
  THEN BookStackCore(rev, id, props, tag) @@ BookStackEdge(rev, id, props)
  ELSE BookStackCore(rev, id, props, tag)

(***************************************************************************)
(* regional-stage.mts: BookstackStage.  The stacks of the stage in the     *)
(* order the constructor declares them.                                    *)
(***************************************************************************)
\* the wiring with the endpoint and the secret name written out as literals
WiringLiteral(data) ==
  [databaseHost |-> Lit("bookstack.cluster-dev.us-west-2.rds.amazonaws.com"),
   databaseSecretName |-> Lit("bookstack-database-secret")]

\* the wiring with the two references taken from the wrong resources
WiringSwapped(data) ==
  [databaseHost |-> Ref(data, "DatabaseSecret", "secretName"),
   databaseSecretName |-> Ref(data, "AuroraCluster", "clusterEndpoint.hostname")]

\* the wiring with the host taken from the data stack's optional record, which
\* the data stack never assigns
WiringUnassigned(data) ==
  [databaseHost |-> Ref(data, "databaseRecord", "domainName"),
   databaseSecretName |-> Ref(data, "DatabaseSecret", "secretName")]

\* what the stage hands from the data stack to the application stack
Wiring(data) ==
  [databaseHost |-> Ref(data, "AuroraCluster", "clusterEndpoint.hostname"),
   databaseSecretName |-> Ref(data, "DatabaseSecret", "secretName")]

\* the application stack placed in another network than the data stack
StageVpcIdOther == "vpc-00000000000000000"

\* vpcId: Vpc.DevOregon
StageVpcId == Vpc.DevOregon

\* stacks deployed where the stage's env says
StackEnvOfStage(props) == props.env

\* env: { account: this.account, region: AwsRegion.Oregon }
StackEnv(props) == [account |-> props.env.account, region |-> AwsRegion.Oregon]

BookstackStage(id, props) ==
  LET data == [id |-> "Data",
               construct |-> "DataStack",
               props |-> [appEnv |-> props.appEnv,
                          logLevel |-> props.logLevel,
                          zone |-> props.zone,
                          removalPolicy |-> "undefined",
                          env |-> StackEnv(props)]]
      app == [id |-> "Bookstack",
              construct |-> "BookStack",
              props |-> [appEnv |-> props.appEnv,
                         logLevel |-> props.logLevel,
                         zone |-> props.zone,
                         removalPolicy |-> "undefined",
                         vpcId |-> StageVpcId,
                         databaseHost |-> Wiring(data.id).databaseHost,
                         databaseSecretName |-> Wiring(data.id).databaseSecretName,
                         env |-> StackEnv(props)]]
  IN <<data, app>>

(***************************************************************************)
(* pipeline-stack.mts: PlatformPipelineStack.                              *)
(***************************************************************************)
\* the build commands with synthesis ahead of the tests
commandsSynthFirst ==
  <<"npm -g i pnpm",
    "pnpm -r i -frozen-lockfile --prefer-offline",
    "pnpm -r build",
    "cd cdk",
    "pnpx cdk synth Platform",
    "pnpm -r test">>

commands ==
  <<"npm -g i pnpm",
    "pnpm -r i -frozen-lockfile --prefer-offline",
    "pnpm -r build",
    "pnpm -r test",
    "cd cdk",
    "pnpx cdk synth Platform">>

devRegionalDefaults ==
  [appEnv |-> "dev", logLevel |-> "info", canaryDeploy |-> FALSE, zone |-> Zone.Dev]

devOregon ==
  BookstackStage("Bookstack-DevOregon",
                 [appEnv |-> devRegionalDefaults.appEnv,
                  logLevel |-> devRegionalDefaults.logLevel,
                  canaryDeploy |-> devRegionalDefaults.canaryDeploy,
                  zone |-> devRegionalDefaults.zone,
                  env |-> [account |-> AwsAccount.Dev, region |-> AwsRegion.Oregon]])

\* pipeline.addWave('DevRegionalWave'); devRegionalWave.addStage(devOregon)
waves == <<[name |-> "DevRegionalWave", stages |-> <<devOregon>>]>>

(***************************************************************************)
(* cdk.mts: the entry point.                                               *)
(***************************************************************************)
\* the accounts the app may be synthesized for: Dev and another one
Accounts == {AwsAccount.Dev, "000000000000"}

PlatformPipelineStack(id, props) ==
  [id |-> id,
   construct |-> "PlatformPipelineStack",
   repository |-> props.repository,
   branch |-> props.branch,
   env |-> props.env,
   commands |-> commands,
   waves |-> waves]

\* an entry point that declares the pipeline whatever the account
CdkAppUnconditional(acct) ==
  {PlatformPipelineStack("Bookstack",
                          [repository |-> "d3vb0ox/bookstack-demo", branch |-> "main",
                           devMode |-> TRUE,
                           env |-> [account |-> acct, region |-> AwsRegion.Oregon]])}

\* if (app.account === AwsAccount.Dev) { new PlatformPipelineStack(...) }
CdkApp(acct) ==
  IF acct = AwsAccount.Dev
  THEN {PlatformPipelineStack("Bookstack",
                               [repository |-> "d3vb0ox/bookstack-demo", branch |-> "main",
                                devMode |-> TRUE,
                                env |-> [account |-> acct, region |-> AwsRegion.Oregon]])}
  ELSE {}

(***************************************************************************)
(* What synthesis makes of the declarations.                               *)
(***************************************************************************)
StackIds == {devOregon[i].id : i \in 1..Len(devOregon)}

Decl(s) == devOregon[CHOOSE i \in 1..Len(devOregon) : devOregon[i].id = s]

\* the tokens a stack's props carry
PropTokens(decl) ==
  IF decl.construct = "BookStack"
  THEN {decl.props.databaseHost, decl.props.databaseSecretName}
  ELSE {}

\* stacks that are deployed independently of each other
DependenciesNone(s) == {}

\* stacks that each wait for the other
DependenciesCircular(s) == StackIds \ {s}

\* a reference to another stack's resource makes the stack depend on it
Dependencies(s) == {t.stack : t \in PropTokens(Decl(s))} \ {"", s}

\* the template of stack s for a source (revision and image tag)
Template(s, rev, tag) ==
  IF Decl(s).construct = "DataStack"
  THEN DataStack(s, Decl(s).props)
  ELSE BookStack(rev, s, Decl(s).props, tag)

\* the references a resource holds to other resources
RefsOf(r) ==
  IF r.type = "FargateService"
  THEN {r.environment[k] : k \in {n \in DOMAIN r.environment : r.environment[n].stack # ""}}
       \cup {r.secrets[k].ref : k \in {n \in DOMAIN r.secrets : r.secrets[n].ref.stack # ""}}
  ELSE IF r.type = "DatabaseCluster" THEN {r.credentials}
  ELSE IF r.type = "ARecord" THEN {r.target}
  ELSE IF r.type = "Role" THEN {g.on : g \in {h \in r.grants : h.on.stack # ""}}
  ELSE {}

(***************************************************************************)
(* The pipeline run and the control plane's state.                         *)
(***************************************************************************)
ImageTags == {"latest", "v25.02"}

NoSource == [rev |-> "none", tag |-> "none"]

Source == [rev |-> headRev, tag |-> headTag]

\* the deployment state of the stage, read off the stacks; a stack that failed
\* to provision leaves the stage in the state it failed in, the run aborted
DeployStateOf(status, out) ==
  IF out # "none" THEN out
  ELSE IF status["Bookstack"] = "complete" THEN "AppReady"
  ELSE IF status["Bookstack"] \in {"inProgress", "failed"} THEN "AppProvisioning"
  ELSE IF status["Data"] = "complete" THEN "DataReady"
  ELSE IF status["Data"] \in {"inProgress", "failed"} THEN "DataProvisioning"
  ELSE "NotProvisioned"

DeployState == DeployStateOf(stackStatus, outcome)

\* a token resolves once the resource it names is provisioned
Resolvable(t, lv) == t.stack = "" \/ t.id \in DOMAIN lv[t.stack]

\* the generation (physical identity) of the resource a token names
GenOf(t, lv) == IF t.id \in DOMAIN lv[t.stack] THEN lv[t.stack][t.id].gen ELSE 0

\* the control plane brings stack s to the template: a resource absent is
\* created, one whose type changed is replaced, one whose properties or
\* resolved references changed is updated, one no longer declared is deleted
Apply(s, tpl, lv, n) ==
  LET old == lv[s]
      gen(id) == IF id \in DOMAIN old /\ old[id].props.type = tpl[id].type
                 THEN old[id].gen ELSE n
      gens == [id \in DOMAIN tpl |-> [gen |-> gen(id)]]
      lv1 == [lv EXCEPT ![s] = gens]
  IN [id \in DOMAIN tpl |->
        [props |-> tpl[id],
         gen |-> gen(id),
         bound |-> [t \in RefsOf(tpl[id]) |-> GenOf(t, lv1)]]]

ChangesOf(s, old, new) ==
  {[stack |-> s, id |-> id, kind |-> "create"] : id \in DOMAIN new \ DOMAIN old}
  \cup {[stack |-> s, id |-> id, kind |-> "delete"] : id \in DOMAIN old \ DOMAIN new}
  \cup {[stack |-> s, id |-> id, kind |-> "replace"] :
          id \in {i \in DOMAIN new \cap DOMAIN old : new[i].gen # old[i].gen}}
  \cup {[stack |-> s, id |-> id, kind |-> "update"] :
          id \in {i \in DOMAIN new \cap DOMAIN old :
                    new[i].gen = old[i].gen /\ new[i] # old[i]}}

\* nothing is being evaluated outside the pipeline
NoEval == [fn |-> "none"]

\* the state after construction: nothing has run and nothing is provisioned
InitPipeline ==
  /\ pipe = "idle"
  /\ runs = 0
  /\ headRev = "head"
  /\ headTag = "latest"
  /\ executed = <<>>
  /\ stackStatus = [s \in StackIds |-> "pending"]
  /\ outcome = "none"
  /\ live = [s \in StackIds |-> <<>>]
  /\ applied = [s \in StackIds |-> NoSource]
  /\ changes = {}
  /\ visited = <<"NotProvisioned">>
  /\ prev = [live |-> [s \in StackIds |-> <<>>],
             applied |-> [s \in StackIds |-> NoSource]]
  /\ health = "unknown"
  /\ cert = [n \in 1..MaxRuns |-> "none"]
  /\ account \in Accounts
  /\ vpcFound = TRUE
  /\ declared = [s \in StackIds |-> {}]
  /\ statusCode = 0

Init ==
  /\ InitPipeline
  /\ eval = NoEval
  /\ wave = <<>>

\* a push to the branch starts a run of the pipeline, where there is one, on
\* that commit
Push(r, t) ==
  /\ CdkApp(account) # {}
  /\ pipe \in {"idle", "succeeded", "halted", "failed"}
  /\ runs < MaxRuns
  /\ pipe' = "build"
  /\ runs' = runs + 1
  /\ headRev' = r
  /\ headTag' = t
  /\ executed' = <<>>
  /\ stackStatus' = [s \in StackIds |-> "pending"]
  /\ outcome' = "none"
  /\ changes' = {}
  /\ visited' = <<"NotProvisioned">>
  /\ prev' = [live |-> live, applied |-> applied]
  /\ health' = "unknown"
  /\ vpcFound' \in BOOLEAN
  /\ declared' = [s \in StackIds |-> {}]
  /\ statusCode' = 0
  /\ UNCHANGED <<live, applied, cert, eval, account, wave>>

\* the constructor of DataStack, statement by statement: the resources it
\* declares and the lookup it makes, in program order
DataStackConstructor ==
  <<[kind |-> "declare", id |-> "DatabaseSecret"],
    [kind |-> "lookup", id |-> "Vpc"],
    [kind |-> "declare", id |-> "DBSecurityGroup"],
    [kind |-> "declare", id |-> "ParameterGroup"],
    [kind |-> "declare", id |-> "AuroraCluster"]>>

\* what a constructor has declared when it returns, or when a lookup that
\* does not resolve ends it
Constructed(steps, found) ==
  LET fails == {i \in 1..Len(steps) : steps[i].kind = "lookup" /\ ~found}
      stop == IF fails = {} THEN Len(steps) + 1
              ELSE CHOOSE i \in fails : \A j \in fails : i <= j
  IN {steps[i].id : i \in {j \in 1..(stop - 1) : steps[j].kind = "declare"}}

\* the stage constructs the data stack first; the application stack is
\* constructed only when that constructor returned
Synthesized(s, found) ==
  IF Decl(s).construct = "DataStack" THEN Constructed(DataStackConstructor, found)
  ELSE IF found THEN DOMAIN Template(s, headRev, headTag)
  ELSE {}

SynthCommand == "pnpx cdk synth Platform"

\* the build runner runs the next command; a non-zero exit ends the build.
\* The synth command runs the constructors and fails when the VPC lookup
\* does not resolve
RunCommand(code) ==
  /\ pipe = "build"
  /\ Len(executed) < Len(commands)
  /\ LET cmd == commands[Len(executed) + 1]
     IN /\ (cmd = SynthCommand /\ ~vpcFound) => code # 0
        /\ executed' = Append(executed, [cmd |-> cmd, exit |-> code])
        /\ declared' = IF cmd = SynthCommand
                       THEN [s \in StackIds |-> Synthesized(s, vpcFound)]
                       ELSE declared
  /\ pipe' = IF code = 0 THEN "build" ELSE "halted"
  /\ UNCHANGED <<runs, headRev, headTag, stackStatus, outcome, live, applied, changes, visited, prev, health, cert, eval, account, vpcFound, statusCode, wave>>

\* the build succeeded: the waves start
BuildSucceeded ==
  /\ pipe = "build"
  /\ Len(executed) = Len(commands)
  /\ pipe' = "deploy"
  /\ UNCHANGED <<runs, headRev, headTag, executed, stackStatus, outcome, live, applied, changes, visited, prev, health, cert, eval, account, vpcFound, declared, statusCode, wave>>

Visit(status, out) ==
  LET st == DeployStateOf(status, out)
  IN IF st = visited[Len(visited)] THEN visited ELSE Append(visited, st)

\* a stage that starts its stacks in any order
ReadyAlways(s, status) == TRUE

\* the stacks s depends on are complete in its stage
Ready(s, status) == \A d \in Dependencies(s) : status[d] = "complete"

\* the certificates stack s has to create in this run: those it declares with
\* DNS validation and does not hold yet
Requested(s) ==
  LET tpl == Template(s, headRev, headTag)
  IN {id \in DOMAIN tpl :
        /\ "validation" \in DOMAIN tpl[id]
        /\ tpl[id].validation = "dns"
        /\ id \in DOMAIN live[s] => live[s][id].props.type # tpl[id].type}

\* provisioning that does not wait for the validation
ValidatedOrNot(s) == TRUE

\* the certificate resource is created only when its DNS validation has
\* succeeded, and the stack completes only when its resources are created
Validated(s) == Requested(s) # {} => cert[runs] = "issued"

\* a stack starts provisioning once the stacks it depends on are complete; a
\* certificate it has to create is requested and awaits its DNS validation
StackBegin(s) ==
  /\ pipe = "deploy"
  /\ stackStatus[s] = "pending"
  /\ Ready(s, stackStatus)
  /\ stackStatus' = [stackStatus EXCEPT ![s] = "inProgress"]
  /\ visited' = Visit(stackStatus', outcome)
  /\ cert' = IF Requested(s) # {} THEN [cert EXCEPT ![runs] = "pending"] ELSE cert
  /\ UNCHANGED <<pipe, runs, headRev, headTag, executed, outcome, live, applied, changes, prev, health, eval, account, vpcFound, declared, statusCode, wave>>

\* the stack's resources are provisioned
StackComplete(s) ==
  /\ pipe = "deploy"
  /\ stackStatus[s] = "inProgress"
  /\ \A t \in PropTokens(Decl(s)) : Resolvable(t, live)
  /\ Validated(s)
  /\ LET new == Apply(s, Template(s, headRev, headTag), live, runs)
     IN /\ live' = [live EXCEPT ![s] = new]
        /\ changes' = changes \cup ChangesOf(s, live[s], new)
  /\ applied' = [applied EXCEPT ![s] = Source]
  /\ stackStatus' = [stackStatus EXCEPT ![s] = "complete"]
  /\ visited' = Visit(stackStatus', outcome)
  /\ UNCHANGED <<pipe, runs, headRev, headTag, executed, outcome, prev, health, cert, eval, account, vpcFound, declared, statusCode, wave>>

\* the DNS validation of the requested certificate succeeds
CertificateValidated ==
  /\ pipe = "deploy"
  /\ stackStatus["Bookstack"] = "inProgress"
  /\ cert[runs] = "pending"
  /\ cert' = [cert EXCEPT ![runs] = "issued"]
  /\ UNCHANGED <<pipe, runs, headRev, headTag, executed, stackStatus, outcome, live, applied, changes, visited, prev, health, eval, account, vpcFound, declared, statusCode, wave>>

\* the DNS validation does not complete in time: the stack fails
CertificateTimeout ==
  /\ pipe = "deploy"
  /\ stackStatus["Bookstack"] = "inProgress"
  /\ cert[runs] = "pending"
  /\ cert' = [cert EXCEPT ![runs] = "timedOut"]
  /\ stackStatus' = [stackStatus EXCEPT !["Bookstack"] = "failed"]
  /\ pipe' = "failed"
  /\ visited' = Visit(stackStatus', outcome)
  /\ UNCHANGED <<runs, headRev, headTag, executed, outcome, live, applied, changes, prev, health, eval, account, vpcFound, declared, statusCode, wave>>

\* provisioning fails: the stack keeps its previous state and the run aborts
StackFail(s) ==
  /\ pipe = "deploy"
  /\ stackStatus[s] = "inProgress"
  /\ stackStatus' = [stackStatus EXCEPT ![s] = "failed"]
  /\ pipe' = "failed"
  /\ visited' = Visit(stackStatus', outcome)
  /\ UNCHANGED <<runs, headRev, headTag, executed, outcome, live, applied, changes, prev, health, cert, eval, account, vpcFound, declared, statusCode, wave>>

\* the status codes a target may answer the health check with; 0: no answer
StatusCodes == {0, 199, 200, 301, 399, 400, 503}

\* the health checks of the target groups the service is registered in
TargetHealthChecks ==
  UNION {live["Bookstack"][id].props.targets :
           id \in {i \in DOMAIN live["Bookstack"] :
                     live["Bookstack"][i].props.type = "Listener"}}

\* the answer counts as healthy for every health check
Healthy(code) ==
  \A t \in TargetHealthChecks : code \in t.healthyLow..t.healthyHigh

\* the service passes its target health check; without a target group
\* nothing is asked and the deployment settles by itself
HealthCheckPass(code) ==
  /\ pipe = "deploy"
  /\ \A s \in StackIds : stackStatus[s] = "complete"
  /\ outcome = "none"
  /\ IF TargetHealthChecks = {} THEN code = 0 ELSE Healthy(code)
  /\ statusCode' = code
  /\ health' = "passed"
  /\ outcome' = "Promoted"
  /\ pipe' = "succeeded"
  /\ visited' = Visit(stackStatus, outcome')
  /\ UNCHANGED <<runs, headRev, headTag, executed, stackStatus, live, applied, changes, prev, cert, eval, account, vpcFound, declared, wave>>

\* the service fails its target health check: with enableRollback the
\* deployment is rolled back and the application stack returns to what it
\* was before the run; without it the failed deployment stays in place
HealthCheckFail(code) ==
  /\ pipe = "deploy"
  /\ \A s \in StackIds : stackStatus[s] = "complete"
  /\ outcome = "none"
  /\ IF TargetHealthChecks = {} THEN code = 0 ELSE ~Healthy(code)
  /\ statusCode' = code
  /\ health' = "failed"
  /\ LET rollback == live["Bookstack"]["BookstackService"].props.enableRollback
     IN /\ outcome' = IF rollback THEN "RolledBack" ELSE outcome
        /\ pipe' = "failed"
        /\ live' = IF rollback
                   THEN [live EXCEPT !["Bookstack"] = prev.live["Bookstack"]]
                   ELSE live
        /\ applied' = IF rollback
                      THEN [applied EXCEPT !["Bookstack"] = prev.applied["Bookstack"]]
                      ELSE applied
  /\ visited' = Visit(stackStatus, outcome')
  /\ UNCHANGED <<runs, headRev, headTag, executed, stackStatus, changes, prev, cert, eval, account, vpcFound, declared, wave>>

Next ==
  \/ \E r \in Revisions, t \in ImageTags : Push(r, t)
  \/ \E code \in {0, 1} : RunCommand(code)
  \/ BuildSucceeded
  \/ \E s \in StackIds : StackBegin(s)
  \/ \E s \in StackIds : StackComplete(s)
  \/ \E s \in StackIds : StackFail(s)
  \/ CertificateValidated
  \/ CertificateTimeout
  \/ \E code \in StatusCodes : HealthCheckPass(code)
  \/ \E code \in StatusCodes : HealthCheckFail(code)

Spec == Init /\ [][Next]_vars

\* the orchestration substrate is fair: a command that can run runs, a stack
\* that can begin begins, provisioning ends in completion or failure, a
\* pending validation succeeds or times out, and the health check answers.
\* Pushes are the environment's and are not forced
Fairness ==
  /\ WF_vars(\E code \in {0, 1} : RunCommand(code))
  /\ WF_vars(BuildSucceeded)
  /\ WF_vars(\E s \in StackIds : StackBegin(s))
  /\ WF_vars(\E s \in StackIds : StackComplete(s) \/ StackFail(s))
  /\ WF_vars(CertificateValidated \/ CertificateTimeout)
  /\ WF_vars(\E code \in StatusCodes : HealthCheckPass(code) \/ HealthCheckFail(code))

MaxAttempts == 2

\* a push among the first MaxAttempts
PushAttempt(r, t) ==
  /\ runs < MaxAttempts
  /\ Push(r, t)

NextFair ==
  \/ \E r \in Revisions, t \in ImageTags : PushAttempt(r, t)
  \/ \E code \in {0, 1} : RunCommand(code)
  \/ BuildSucceeded
  \/ \E s \in StackIds : StackBegin(s)
  \/ \E s \in StackIds : StackComplete(s)
  \/ \E s \in StackIds : StackFail(s)
  \/ CertificateValidated
  \/ CertificateTimeout
  \/ \E code \in StatusCodes : HealthCheckPass(code)
  \/ \E code \in StatusCodes : HealthCheckFail(code)

SpecFair == Init /\ [][NextFair]_vars /\ Fairness

(***************************************************************************)
(* The record name of the alias record as a function of host and zone:     *)
(* every domain name over a two-symbol alphabet up to the bounds as host   *)
(* and zone, and the registry's own pair.                                  *)
(***************************************************************************)
MaxHostLen == 7

MaxZoneLen == 3

Symbols == {"a", "."}

\* the domain names of at most n symbols: labels are not empty
DomainNames(n) ==
  {s \in UNION {[1..k -> Symbols] : k \in 1..n} :
     /\ s[1] # "."
     /\ s[Len(s)] # "."
     /\ \A i \in 1..(Len(s) - 1) : ~(s[i] = "." /\ s[i + 1] = ".")}

RecordNameInputs ==
  {[host |-> h, zone |-> z] : h \in DomainNames(MaxHostLen), z \in DomainNames(MaxZoneLen)}
  \cup {[host |-> AppUrl.DevOregon, zone |-> Zone.Dev]}

InitRecordName ==
  /\ InitPipeline
  /\ wave = <<>>
  /\ eval \in {[fn |-> "recordName", host |-> i.host, zone |-> i.zone,
                 done |-> FALSE, result |-> <<>>] : i \in RecordNameInputs}

\* const recordName = AppUrl.DevOregon.replace(`.${props.zone}`, '')
DeriveRecordName ==
  /\ eval.fn = "recordName"
  /\ ~eval.done
  /\ eval' = [eval EXCEPT !.done = TRUE, !.result = RecordName(eval.host, eval.zone)]
  /\ UNCHANGED <<pipe, runs, headRev, headTag, executed, stackStatus, outcome, live,
                 applied, changes, visited, prev, health, cert, account, vpcFound, declared, statusCode, wave>>

NextRecordName == DeriveRecordName

SpecRecordName == InitRecordName /\ [][NextRecordName]_vars

(***************************************************************************)
(* The two stack constructors as functions of their props: every           *)
(* environment, removal policy and region a caller can pass, for every     *)
(* revision of the application stack.                                      *)
(***************************************************************************)
\* type Env = 'dev' | 'stage' | 'prod'
Env == {"dev", "stage", "prod"}

\* removalPolicy?: RemovalPolicy
RemovalPolicies ==
  {"undefined", RemovalPolicy.DESTROY, RemovalPolicy.RETAIN, RemovalPolicy.SNAPSHOT}

Regions == {AwsRegion.Virginia, AwsRegion.Ohio, AwsRegion.Oregon}

\* the zones a caller can pass: the registry's, every other zone the
\* application host lies in, and one it does not lie in
Zones ==
  {Zone.Dev, <<"example", ".", "io">>}
  \cup {SubSeq(AppUrl.DevOregon, i + 1, Len(AppUrl.DevOregon)) :
          i \in {j \in 1..(Len(AppUrl.DevOregon) - 1) : AppUrl.DevOregon[j] = "."}}

StackProps ==
  {[appEnv |-> e,
    logLevel |-> "info",
    zone |-> z,
    removalPolicy |-> p,
    vpcId |-> Vpc.DevOregon,
    databaseHost |-> Wiring("Data").databaseHost,
    databaseSecretName |-> Wiring("Data").databaseSecretName,
    env |-> [account |-> AwsAccount.Dev, region |-> r]] :
     e \in Env, z \in Zones, p \in RemovalPolicies, r \in Regions}

\* RegionalStageProps, for every account and region of the stage's env
StageProps ==
  {[appEnv |-> e,
    logLevel |-> "info",
    canaryDeploy |-> FALSE,
    zone |-> Zone.Dev,
    env |-> [account |-> a, region |-> r]] :
     e \in Env, a \in Accounts, r \in Regions}

InitDeclare ==
  /\ InitPipeline
  /\ wave = <<>>
  /\ eval \in {[fn |-> "declare", rev |-> r, props |-> p, done |-> FALSE, result |-> <<>>] :
                 r \in Revisions, p \in StackProps}
             \cup {[fn |-> "stage", props |-> p, done |-> FALSE, result |-> <<>>] :
                      p \in StageProps}

\* new DataStack(this, 'Data', props); new BookStack(this, 'Bookstack', props)
DeclareStacks ==
  /\ eval.fn = "declare"
  /\ ~eval.done
  /\ eval' = [eval EXCEPT
               !.done = TRUE,
               !.result = [Data |-> DataStack("Data", eval.props),
                           Bookstack |-> BookStack(eval.rev, "Bookstack", eval.props,
                                                   "latest")]]
  /\ UNCHANGED <<pipe, runs, headRev, headTag, executed, stackStatus, outcome, live,
                 applied, changes, visited, prev, health, cert, account, vpcFound,
                 declared, statusCode, wave>>

\* new BookstackStage(this, id, props)
DeclareStage ==
  /\ eval.fn = "stage"
  /\ ~eval.done
  /\ eval' = [eval EXCEPT !.done = TRUE,
                          !.result = BookstackStage("Bookstack-Stage", eval.props)]
  /\ UNCHANGED <<pipe, runs, headRev, headTag, executed, stackStatus, outcome, live,
                 applied, changes, visited, prev, health, cert, account, vpcFound,
                 declared, statusCode, wave>>

NextDeclare == DeclareStacks \/ DeclareStage

SpecDeclare == InitDeclare /\ [][NextDeclare]_vars

(***************************************************************************)
(* A wave that holds further stages next to devOregon, all instances of    *)
(* BookstackStage: the stages of a wave are deployed concurrently, the     *)
(* stacks of each in the order of their dependencies.  One run of the      *)
(* pipeline on the current declaration, up to the stacks' provisioning.    *)
(***************************************************************************)
MaxSiblings == 2

InitWave ==
  /\ InitPipeline
  /\ eval = NoEval
  /\ wave \in {[st \in 1..n |-> [s \in StackIds |-> "pending"]] : n \in 1..MaxSiblings}

SiblingBegin(st, s) ==
  /\ pipe = "deploy"
  /\ st \in DOMAIN wave
  /\ wave[st][s] = "pending"
  /\ Ready(s, wave[st])
  /\ wave' = [wave EXCEPT ![st][s] = "inProgress"]
  /\ UNCHANGED <<pipe, runs, headRev, headTag, executed, stackStatus, outcome, live,
                 applied, changes, visited, prev, health, cert, eval, account, vpcFound,
                 declared, statusCode>>

SiblingComplete(st, s) ==
  /\ pipe = "deploy"
  /\ st \in DOMAIN wave
  /\ wave[st][s] = "inProgress"
  /\ wave' = [wave EXCEPT ![st][s] = "complete"]
  /\ UNCHANGED <<pipe, runs, headRev, headTag, executed, stackStatus, outcome, live,
                 applied, changes, visited, prev, health, cert, eval, account, vpcFound,
                 declared, statusCode>>

\* a stack of a further stage fails to provision: the run aborts
SiblingFail(st, s) ==
  /\ pipe = "deploy"
  /\ st \in DOMAIN wave
  /\ wave[st][s] = "inProgress"
  /\ wave' = [wave EXCEPT ![st][s] = "failed"]
  /\ pipe' = "failed"
  /\ UNCHANGED <<runs, headRev, headTag, executed, stackStatus, outcome, live,
                 applied, changes, visited, prev, health, cert, eval, account, vpcFound,
                 declared, statusCode>>

\* the one run: a push of the current declaration
FirstPush ==
  /\ runs = 0
  /\ Push("head", "latest")

NextWave ==
  \/ FirstPush
  \/ \E code \in {0, 1} : RunCommand(code)
  \/ BuildSucceeded
  \/ \E s \in StackIds : StackBegin(s)
  \/ \E s \in StackIds : StackComplete(s)
  \/ \E s \in StackIds : StackFail(s)
  \/ CertificateValidated
  \/ CertificateTimeout
  \/ \E st \in 1..MaxSiblings, s \in StackIds : SiblingBegin(st, s)
  \/ \E st \in 1..MaxSiblings, s \in StackIds : SiblingComplete(st, s)
  \/ \E st \in 1..MaxSiblings, s \in StackIds : SiblingFail(st, s)

SpecWave == InitWave /\ [][NextWave]_vars

(***************************************************************************)
(* Properties.                                                             *)
(***************************************************************************)
AppStarted == DeployState \in {"AppProvisioning", "AppReady", "Promoted", "RolledBack"}

Provisioned(s, id) == id \in DOMAIN live[s]

\* C1: in every reachable state, once the application stack of the stage has
\* started provisioning (or is past it), the data stack of the same stage
\* has finished provisioning and the cluster and its secret exist.
C1_DataBeforeApp ==
  AppStarted =>
    /\ stackStatus["Data"] = "complete"
    /\ Provisioned("Data", "AuroraCluster")
    /\ Provisioned("Data", "DatabaseSecret")

\* the first deployment of the stage has reached the application stack
C1_Witness ==
  /\ runs = 1
  /\ DeployState = "AppProvisioning"
  /\ prev.live["Data"] = <<>>
  /\ Provisioned("Data", "AuroraCluster")

\* position of a stack in the stage's declaration order
StageIndex(s) == CHOOSE i \in 1..Len(devOregon) : devOregon[i].id = s

\* C2: the provisioned service's DB_HOST is the endpoint hostname of the
\* cluster of the data stack declared earlier in the same stage, resolved to
\* the cluster that is live, and its DB_PASSWORD binding reads key 'password'
\* of the secret that data stack generated; no reference of a stack points
\* to a stack declared later or not at all.
C2_ServiceReadsOwnDatabase ==
  /\ \A i \in 1..Len(devOregon) : \A t \in PropTokens(devOregon[i]) :
        \E j \in 1..(i - 1) : devOregon[j].id = t.stack
  /\ Provisioned("Bookstack", "BookstackService") =>
       LET svc == live["Bookstack"]["BookstackService"]
           host == svc.props.environment["DB_HOST"]
           pw == svc.props.secrets["DB_PASSWORD"]
       IN /\ host = Ref("Data", "AuroraCluster", "clusterEndpoint.hostname")
          /\ Provisioned("Data", "AuroraCluster")
          /\ live["Data"]["AuroraCluster"].props.type = "DatabaseCluster"
          /\ svc.bound[host] = live["Data"]["AuroraCluster"].gen
          /\ pw.store = "secretsmanager"
          /\ pw.key = "password"
          /\ pw.ref = Ref("Data", "DatabaseSecret", "secretName")
          /\ Provisioned("Data", "DatabaseSecret")
          /\ live["Data"]["DatabaseSecret"].props.type = "Secret"
          /\ live["Data"]["DatabaseSecret"].props.generateStringKey = pw.key
          /\ svc.bound[pw.ref] = live["Data"]["DatabaseSecret"].gen
          /\ live["Data"]["AuroraCluster"].props.credentials.id = pw.ref.id
          /\ StageIndex(host.stack) < StageIndex("Bookstack")

\* the service is live and bound to the live cluster and secret
C2_Witness ==
  /\ outcome = "Promoted"
  /\ Provisioned("Bookstack", "BookstackService")
  /\ live["Bookstack"]["BookstackService"].bound[Wiring("Data").databaseHost] >= 1

\* the provisioned resources of a stack that have a given type
OfType(s, type) == {id \in DOMAIN live[s] : live[s][id].props.type = type}

\* C3: every provisioned listener on port 80 has the permanent redirect to
\* HTTPS port 443 as its action and no target group; only a listener on
\* another port forwards to the service.
C3_HttpListenerRedirectOnly ==
  \A id \in OfType("Bookstack", "Listener") :
    LET l == live["Bookstack"][id].props
    IN /\ l.port = 80 =>
            /\ l.defaultAction = [kind |-> "redirect", protocol |-> "HTTPS",
                                  port |-> 443, permanent |-> TRUE]
            /\ l.targets = {}
       /\ l.targets # {} => l.port # 80

\* the port-80 listener is provisioned and the deployment promoted
C3_Witness ==
  /\ outcome = "Promoted"
  /\ Provisioned("Bookstack", "HttpListener")
  /\ live["Bookstack"]["HttpListener"].props.port = 80

\* C4: every ingress rule of a security group of the data stack, and so of
\* the group attached to the cluster, admits TCP port 3306 from the CIDR
\* block of the VPC the cluster is declared in and nothing else; the writer
\* instance is not publicly accessible and sits in isolated subnets.
C4_DatabaseIngressVpcOnly ==
  /\ \A g \in OfType("Data", "SecurityGroup") :
       \A rule \in live["Data"][g].props.ingress :
         /\ rule.port = 3306
         /\ rule.peer = PeerVpcCidr(live["Data"][g].props.vpc)
         /\ rule.peer.value = Vpc.DevOregon
  /\ \A c \in OfType("Data", "DatabaseCluster") :
       LET cl == live["Data"][c].props
       IN /\ cl.writer.publiclyAccessible = FALSE
          /\ cl.subnetType = "PRIVATE_ISOLATED"
          /\ cl.securityGroups # {}
          /\ \A g \in cl.securityGroups :
               /\ g \in OfType("Data", "SecurityGroup")
               /\ live["Data"][g].props.vpc = cl.vpc
               /\ live["Data"][g].props.ingress # {}

\* the cluster is provisioned behind its security group
C4_Witness ==
  /\ Provisioned("Data", "AuroraCluster")
  /\ Provisioned("Data", "DBSecurityGroup")
  /\ live["Data"]["DBSecurityGroup"].props.ingress # {}

\* every ingress rule of the deployment, with the stack and group it is in
AllIngress ==
  UNION {{[stack |-> s, group |-> g, rule |-> r] : r \in live[s][g].props.ingress} :
           <<s, g>> \in {p \in StackIds \X {"DBSecurityGroup", "ServiceSecurityGroup", "AlbSecurityGroup"} :
                          p[2] \in OfType(p[1], "SecurityGroup")}}

\* C5: the service's security group admits only the load balancer's group
\* on the service's container port; an ingress rule open to the internet
\* exists only on the load balancer's group and only for ports 80 and 443;
\* the load balancer is the only internet-facing resource, and neither the
\* container port nor port 3306 is open to the internet on any other group.
C5_OnlyLoadBalancerFacesInternet ==
  /\ Provisioned("Bookstack", "ServiceSecurityGroup") =>
       \A rule \in live["Bookstack"]["ServiceSecurityGroup"].props.ingress :
         /\ Provisioned("Bookstack", "Alb")
         /\ rule.peer = PeerSecurityGroup(live["Bookstack"]["Alb"].props.securityGroup)
         /\ rule.port = live["Bookstack"]["BookstackService"].props.port
  /\ \A e \in AllIngress :
       e.rule.peer.kind = "ipv4" =>
         /\ e.stack = "Bookstack"
         /\ Provisioned("Bookstack", "Alb")
         /\ e.group = live["Bookstack"]["Alb"].props.securityGroup
         /\ e.rule.port \in {80, 443}
  /\ \A lb \in OfType("Bookstack", "LoadBalancer") :
       live["Bookstack"][lb].props.internetFacing => lb = "Alb"
  /\ \A c \in OfType("Data", "DatabaseCluster") :
       ~live["Data"][c].props.writer.publiclyAccessible
  /\ \A svc \in OfType("Bookstack", "FargateService") :
       live["Bookstack"][svc].props.subnetType = "PRIVATE_ISOLATED"

\* the service is reachable through the load balancer
C5_Witness ==
  /\ outcome = "Promoted"
  /\ Provisioned("Bookstack", "Alb")
  /\ live["Bookstack"]["ServiceSecurityGroup"].props.ingress # {}
  /\ \E e \in AllIngress : e.rule.peer.kind = "ipv4"

\* C6: the provisioned service receives APP_KEY and DB_PASSWORD only as
\* secret references (the SSM parameter /app/bookstack/app_key and key
\* 'password' of the generated secret), each readable by the execution
\* role, and neither name is in its plaintext environment, whatever
\* revision of the declaration was deployed.
C6_KeysOnlyAsSecretReferences ==
  Provisioned("Bookstack", "BookstackService") =>
    LET svc == live["Bookstack"]["BookstackService"].props
        role == live["Bookstack"]["ExecutionRole"].props
    IN /\ "APP_KEY" \notin DOMAIN svc.environment
       /\ "DB_PASSWORD" \notin DOMAIN svc.environment
       /\ {"APP_KEY", "DB_PASSWORD"} \subseteq DOMAIN svc.secrets
       /\ svc.secrets["APP_KEY"].store = "ssm"
       /\ svc.secrets["APP_KEY"].ref = Lit("/app/bookstack/app_key")
       /\ svc.secrets["DB_PASSWORD"].store = "secretsmanager"
       /\ svc.secrets["DB_PASSWORD"].key = "password"
       /\ \A n \in {"APP_KEY", "DB_PASSWORD"} :
            [action |-> "secret:read", on |-> svc.secrets[n].ref] \in role.grants

Chain == <<"NotProvisioned", "DataProvisioning", "DataReady", "AppProvisioning", "AppReady">>

ChainSteps ==
  {<<Chain[i], Chain[i + 1]>> : i \in 1..(Len(Chain) - 1)}
  \cup {<<"AppReady", "Promoted">>, <<"AppReady", "RolledBack">>}

\* one step of a deploy: the state stays, or moves to its successor, and to
\* AppProvisioning only with the endpoint and the secret name resolvable
C7_Step ==
  IF runs' # runs
  THEN DeployState' = "NotProvisioned"
  ELSE \/ DeployState' = DeployState
       \/ /\ <<DeployState, DeployState'>> \in ChainSteps
          /\ DeployState' = "AppProvisioning" =>
               /\ Resolvable(Decl("Bookstack").props.databaseHost, live)
               /\ Resolvable(Decl("Bookstack").props.databaseSecretName, live)

\* the states a deploy went through are a prefix of the chain, then at most
\* one of Promoted and RolledBack: none skipped, none twice
C7_Visited ==
  /\ visited[Len(visited)] = DeployState
  /\ \A i \in 1..Len(visited) :
       IF i <= Len(Chain) THEN visited[i] = Chain[i]
       ELSE i = Len(Chain) + 1 /\ visited[i] \in {"Promoted", "RolledBack"}

\* C7: within one deploy the deployment state moves only along
\* NotProvisioned -> DataProvisioning -> DataReady -> AppProvisioning ->
\* AppReady -> (Promoted | RolledBack), one step at a time, never back, and
\* enters AppProvisioning only when the data layer's endpoint hostname and
\* secret name are resolvable.
C7_StateMachine == [](C7_Visited) /\ [][C7_Step]_vars

\* a deploy went through the whole chain
C7_Witness ==
  visited = Chain \o <<"Promoted">>

\* the order of the build the pipeline is to keep
BuildOrder ==
  <<"npm -g i pnpm",
    "pnpm -r i -frozen-lockfile --prefer-offline",
    "pnpm -r build",
    "pnpm -r test",
    "cd cdk",
    "pnpx cdk synth Platform">>

DeployStarted ==
  \/ pipe \in {"deploy", "succeeded", "failed"}
  \/ \E s \in StackIds : stackStatus[s] # "pending"
  \/ changes # {}

\* C8: the commands run so far are a prefix of install pnpm, install
\* dependencies, build, test, cd cdk, synth; every command before the last
\* one run exited with zero; a deploy action has started only if all six ran
\* and exited with zero; after a non-zero exit the run is halted, nothing
\* further ran and no stack was touched.
C8_BuildBeforeDeploy ==
  /\ Len(executed) <= Len(BuildOrder)
  /\ \A i \in 1..Len(executed) :
       /\ executed[i].cmd = BuildOrder[i]
       /\ i < Len(executed) => executed[i].exit = 0
  /\ DeployStarted =>
       /\ Len(executed) = Len(BuildOrder)
       /\ \A i \in 1..Len(executed) : executed[i].exit = 0
  /\ (\E i \in 1..Len(executed) : executed[i].exit # 0) =>
       /\ pipe = "halted"
       /\ ~DeployStarted
       /\ live = prev.live

\* the tests failed and the run halted before any deploy
C8_Witness ==
  /\ pipe = "halted"
  /\ Len(executed) = 4
  /\ executed[4] = [cmd |-> "pnpm -r test", exit |-> 1]

\* the source of this run is the one already applied to every stack
SameSource == prev.applied = [s \in StackIds |-> Source]

\* C9: a run that deploys the source already applied to both stacks changes
\* nothing: it creates, updates, replaces and deletes no resource, and the
\* provisioned resources are those the previous deploy left.
C9_RedeployIdempotent ==
  SameSource => changes = {} /\ live = prev.live

\* the same source was deployed a second time, to the end
C9_Witness ==
  /\ SameSource
  /\ runs >= 2
  /\ outcome = "Promoted"
  /\ Provisioned("Bookstack", "BookstackService")

\* the source of this run differs from the one applied to both stacks in the
\* image tag only
TagOnly ==
  \E t \in ImageTags \ {headTag} :
    prev.applied = [s \in StackIds |-> [rev |-> headRev, tag |-> t]]

ServiceUpdate == [stack |-> "Bookstack", id |-> "BookstackService", kind |-> "update"]

\* C10: in a run whose source differs from the applied one in the image tag
\* only, the one change made is an in-place update of the service (done
\* once the deploy is promoted, with the new tag); the database cluster, its
\* secret and the DNS alias record keep their identity and properties.
C10_TagChangeUpdatesServiceOnly ==
  TagOnly =>
    /\ changes \subseteq {ServiceUpdate}
    /\ live["Data"] = prev.live["Data"]
    /\ \A id \in {"AuroraCluster", "DatabaseSecret"} :
         Provisioned("Data", id) /\ live["Data"][id] = prev.live["Data"][id]
    /\ "AppAliasRecord" \in DOMAIN prev.live["Bookstack"] =>
         /\ Provisioned("Bookstack", "AppAliasRecord")
         /\ live["Bookstack"]["AppAliasRecord"] = prev.live["Bookstack"]["AppAliasRecord"]
    /\ outcome = "Promoted" =>
         /\ changes = {ServiceUpdate}
         /\ live["Bookstack"]["BookstackService"].props.image = ContainerImage(headTag)
         /\ live["Bookstack"]["BookstackService"].gen
              = prev.live["Bookstack"]["BookstackService"].gen

\* the tag alone changed and the deploy was promoted, with an alias record
C10_Witness ==
  /\ TagOnly
  /\ outcome = "Promoted"
  /\ Provisioned("Bookstack", "AppAliasRecord")
  /\ ServiceUpdate \in changes

\* C11: when the service fails its target health check, the deployment ends
\* RolledBack, never Promoted, with the application stack, the service's task
\* definition included, as it was before the run; the rollback leaves the
\* data layer as the run provisioned it.
C11_Step ==
  (health # "failed" /\ health' = "failed") => live'["Data"] = live["Data"]

C11_RolledBack ==
  health = "failed" =>
    /\ outcome = "RolledBack"
    /\ DeployState = "RolledBack"
    /\ live["Bookstack"] = prev.live["Bookstack"]
    /\ applied["Bookstack"] = prev.applied["Bookstack"]

C11_HealthCheckFailureRollsBack == [](C11_RolledBack) /\ [][C11_Step]_vars

\* a second run deployed another image tag, failed its health check and left
\* the service on the task definition of the first run
C11_Witness ==
  /\ health = "failed"
  /\ runs >= 2
  /\ Provisioned("Bookstack", "BookstackService")
  /\ live["Bookstack"]["BookstackService"].gen < runs
  /\ live["Bookstack"]["BookstackService"].props.image # ContainerImage(headTag)

\* C12: the certificate of every attached HTTPS listener has passed its DNS
\* validation, and while the validation of the certificate requested by the
\* current run has not succeeded (pending or timed out) the application stack
\* is not complete, the stage has not reached AppReady and the run is not
\* reported successful.
C12_CertificateValidationBlocks ==
  /\ \A id \in OfType("Bookstack", "Listener") :
       LET l == live["Bookstack"][id].props
       IN l.port = 443 =>
            /\ l.certificates # {}
            /\ \A c \in l.certificates :
                 /\ Provisioned("Bookstack", c)
                 /\ cert[live["Bookstack"][c].gen] = "issued"
  /\ (runs >= 1 /\ cert[runs] \in {"pending", "timedOut"}) =>
       /\ stackStatus["Bookstack"] # "complete"
       /\ DeployState \notin {"AppReady", "Promoted", "RolledBack"}
       /\ pipe # "succeeded"

\* the application stack is provisioning and waits for the validation of the
\* certificate it requested, no HTTPS listener attached
C12_Witness ==
  /\ runs >= 1
  /\ cert[runs] = "pending"
  /\ stackStatus["Bookstack"] = "inProgress"
  /\ ~Provisioned("Bookstack", "HttpsListener")

EndsWith(s, suffix) ==
  /\ Len(suffix) <= Len(s)
  /\ SubSeq(s, Len(s) - Len(suffix) + 1, Len(s)) = suffix

C15_PipelineOnlyInDevAccount ==
  /\ CdkApp(account) # {} <=> account = AwsAccount.Dev
  /\ \A p \in CdkApp(account) : p.construct = "PlatformPipelineStack"
  /\ account # AwsAccount.Dev =>
       /\ CdkApp(account) = {}
       /\ pipe = "idle"
       /\ runs = 0
       /\ \A s \in StackIds : stackStatus[s] = "pending" /\ live[s] = <<>>

\* the pipeline declared for the Dev account has run and promoted a deployment
C15_Witness ==
  /\ account = AwsAccount.Dev
  /\ CdkApp(account) # {}
  /\ outcome = "Promoted"

\* the generated credential secrets that exist in stack s
GeneratedSecrets(s) ==
  {id \in OfType(s, "Secret") : live[s][id].props.generateStringKey = "password"}

\* C16: whatever has been deployed and redeployed, the data stack holds as
\* many generated credential secrets as database clusters, one, and every
\* cluster takes its credentials from that secret, the one created with it
\* and never replaced since.
C16_OneSecretPerCluster ==
  /\ Cardinality(GeneratedSecrets("Data")) = Cardinality(OfType("Data", "DatabaseCluster"))
  /\ \A c \in OfType("Data", "DatabaseCluster") :
       LET cluster == live["Data"][c]
       IN /\ Cardinality(GeneratedSecrets("Data")) = 1
          /\ \E id \in GeneratedSecrets("Data") :
               /\ cluster.props.credentials = Ref("Data", id, "secret")
               /\ cluster.bound[cluster.props.credentials] = live["Data"][id].gen
               /\ live["Data"][id].gen = cluster.gen

\* the data stack was deployed in an earlier run and redeployed in this one
C16_Witness ==
  /\ runs >= 2
  /\ stackStatus["Data"] = "complete"
  /\ Provisioned("Data", "AuroraCluster")
  /\ live["Data"]["DatabaseSecret"].gen < runs

\* the synthesis of this run failed at the VPC lookup
VpcLookupFailed ==
  /\ ~vpcFound
  /\ pipe = "halted"
  /\ Len(executed) >= 1
  /\ executed[Len(executed)].cmd = SynthCommand

\* C17: when the VPC cannot be resolved, the data stack holds no declared
\* resource at the failure: no secret, no security group, no parameter group
\* and no cluster.
C17_VpcFailureDeclaresNothing ==
  VpcLookupFailed =>
    declared["Data"] \cap {"DatabaseSecret", "DBSecurityGroup", "ParameterGroup",
                           "AuroraCluster"} = {}

\* the constructor's statements declare what the data stack's template holds
ConstructorDeclaresTemplate ==
  Constructed(DataStackConstructor, TRUE) = DOMAIN Template("Data", headRev, headTag)

\* C18: the execution role of the provisioned service carries only
\* log-writing, image-pull and secret or parameter read permissions, and
\* read/write on the storage bucket is granted to the task role.
C18_BucketAccessOnTaskRole ==
  Provisioned("Bookstack", "ExecutionRole") =>
    /\ \A g \in live["Bookstack"]["ExecutionRole"].props.grants :
         g.action \in {"logs:write", "image:pull", "secret:read"}
    /\ \E g \in live["Bookstack"]["TaskRole"].props.grants :
         g.action = "s3:readwrite" /\ g.on = Lit("AssetsBucket")

\* C19: every provisioned storage bucket has public read access off and all
\* four public-access block settings enabled: block public ACLs, block
\* public policy, ignore public ACLs, restrict public buckets.
C19_BucketPublicAccessBlocked ==
  \A id \in OfType("Bookstack", "Bucket") :
    LET b == live["Bookstack"][id].props
    IN /\ ~b.publicReadAccess
       /\ b.blockPublicAccess.blockPublicAcls
       /\ b.blockPublicAccess.blockPublicPolicy
       /\ b.blockPublicAccess.ignorePublicAcls
       /\ b.blockPublicAccess.restrictPublicBuckets

\* C20: for appEnv "prod", or with a removal policy other than DESTROY in
\* effect, the storage bucket is declared without auto-delete of its objects.
C20_AutoDeleteOnlyNonProduction ==
  (/\ eval.fn = "declare"
   /\ eval.done
   /\ \/ eval.props.appEnv = "prod"
      \/ OrDestroy(eval.props.removalPolicy) # RemovalPolicy.DESTROY) =>
    ~eval.result["Bookstack"]["AssetsBucket"].autoDeleteObjects

\* the constructors have been applied to their props
Declared == eval.fn = "declare" /\ eval.done

\* C21: whatever removalPolicy the data stack is passed, none included, its
\* cluster is declared with storage encryption and deletion protection on,
\* 7 days of backup retention, the fixed backup and maintenance windows and
\* default database "bookstack", and its credential is a generated secret for
\* user "bookstack" under key "password", 32 long, no punctuation, no space.
C21_ClusterSettingsFixed ==
  Declared =>
    LET cluster == eval.result["Data"]["AuroraCluster"]
        secret == eval.result["Data"][cluster.credentials.id]
    IN /\ cluster.type = "DatabaseCluster"
       /\ cluster.storageEncrypted
       /\ cluster.deletionProtection
       /\ cluster.backupRetentionDays = 7
       /\ cluster.backupPreferredWindow = "03:00-04:00"
       /\ cluster.preferredMaintenanceWindow = "sun:04:00-sun:05:00"
       /\ cluster.defaultDatabaseName = "bookstack"
       /\ secret.type = "Secret"
       /\ secret.usernameTemplate = "bookstack"
       /\ secret.generateStringKey = "password"
       /\ secret.passwordLength = 32
       /\ secret.excludePunctuation
       /\ ~secret.includeSpace

\* the data stack has been declared with no removal policy passed
C21_Witness ==
  /\ Declared
  /\ eval.props.removalPolicy = "undefined"
  /\ "AuroraCluster" \in DOMAIN eval.result["Data"]

\* C22: every provisioned listener on port 443 carries the DNS-validated
\* certificate and forwards to one target only, the service, on the port the
\* container listens on, 80; its health check asks for "/", and a deployment
\* behind it passes the health check exactly when the target answered with a
\* status code in 200..399.
C22_HttpsListenerForwardsToService ==
  /\ \A id \in OfType("Bookstack", "Listener") :
       LET l == live["Bookstack"][id].props
       IN l.port = 443 =>
            /\ l.certificates = {"AppCertificate"}
            /\ live["Bookstack"]["AppCertificate"].props.validation = "dns"
            /\ l.defaultAction.kind = "forward"
            /\ Cardinality(l.targets) = 1
            /\ \A t \in l.targets :
                 /\ t.service = "BookstackService"
                 /\ live["Bookstack"][t.service].props.type = "FargateService"
                 /\ t.port = live["Bookstack"][t.service].props.port
                 /\ t.port = 80
                 /\ t.healthCheckPath = "/"
                 /\ \A code \in StatusCodes \ {0} :
                      Healthy(code) <=> code \in 200..399
  /\ (HasEdge(headRev) /\ health # "unknown") =>
       (health = "passed" <=> statusCode \in 200..399)

\* a deployment behind the port-443 listener was promoted on a redirect
\* answer of the target
C22_Witness ==
  /\ Provisioned("Bookstack", "HttpsListener")
  /\ health = "passed"
  /\ statusCode = 301
  /\ outcome = "Promoted"

\* C23: when the data stack failed to provision, the run is aborted, the
\* stage has not entered AppProvisioning in this run, the application stack
\* was never begun and holds what it held before the run: no bucket,
\* cluster, service, load balancer or DNS record was created.
C23_DataFailureAbortsDeploy ==
  stackStatus["Data"] = "failed" =>
    /\ pipe = "failed"
    /\ stackStatus["Bookstack"] = "pending"
    /\ \A i \in 1..Len(visited) :
         visited[i] \notin {"AppProvisioning", "AppReady", "Promoted", "RolledBack"}
    /\ live["Bookstack"] = prev.live["Bookstack"]
    /\ \A c \in changes : c.stack # "Bookstack"

\* the data stack failed in the first run: no application resource exists
C23_Witness ==
  /\ stackStatus["Data"] = "failed"
  /\ runs = 1
  /\ live["Bookstack"] = <<>>

\* the stacks of the stages of the wave, by stage: devOregon and the others
StageStatus == <<stackStatus>> \o wave

\* C24: the pipeline declares one wave, DevRegionalWave, holding one stage,
\* whose stacks are all in one account and region; a stack of any stage of
\* the wave is begun only after all build commands ran and exited with zero;
\* and in every stage of a wave shared by several, however their steps
\* interleave, the application stack is begun only when the data stack of
\* the same stage is complete.
C24_WaveOrder ==
  /\ Len(waves) = 1
  /\ waves[1].name = "DevRegionalWave"
  /\ Len(waves[1].stages) = 1
  /\ waves[1].stages[1] = devOregon
  /\ Cardinality({devOregon[i].props.env : i \in 1..Len(devOregon)}) = 1
  /\ devOregon[1].props.appEnv = "dev"
  /\ \A st \in 1..Len(StageStatus) :
       /\ (\E s \in StackIds : StageStatus[st][s] # "pending") =>
            /\ Len(executed) = Len(commands)
            /\ \A i \in 1..Len(executed) : executed[i].exit = 0
       /\ StageStatus[st]["Bookstack"] # "pending" =>
            StageStatus[st]["Data"] = "complete"

\* three stages of the wave under way at once, each at another point
C24_Witness ==
  /\ Len(wave) = 2
  /\ stackStatus["Data"] = "inProgress"
  /\ wave[1]["Data"] = "complete" /\ wave[1]["Bookstack"] = "inProgress"
  /\ wave[2]["Bookstack"] = "complete"

\* the deployment attempt of this run has ended: promoted, rolled back or
\* aborted
Ended == outcome \in {"Promoted", "RolledBack"} \/ pipe = "failed"

\* C25: under the substrate's fairness every deployment attempt under way
\* eventually ends promoted, rolled back or aborted; in particular one whose
\* stage is in DataProvisioning or AppProvisioning does not stay there with
\* the attempt under way forever.
C25_DeployTerminates == (pipe = "deploy") ~> Ended

\* an attempt ended by the timeout of the certificate's validation
C25_Witness ==
  /\ runs >= 1
  /\ cert[runs] = "timedOut"
  /\ DeployState = "AppProvisioning"
  /\ Ended

\* C26: whatever region and account the env of a stage names, the stage
\* declares its two stacks, data and application, both in region us-west-2
\* and both in the stage's account.
C26_StacksAlwaysInOregon ==
  (eval.fn = "stage" /\ eval.done) =>
    /\ Len(eval.result) = 2
    /\ {eval.result[i].construct : i \in 1..2} = {"DataStack", "BookStack"}
    /\ \A i \in 1..2 :
         eval.result[i].props.env =
           [account |-> eval.props.env.account, region |-> "us-west-2"]

\* a stage declared with another region than Oregon in its env
C26_Witness ==
  /\ eval.fn = "stage"
  /\ eval.done
  /\ eval.props.env.region = "us-east-1"

\* the networks the provisioned resources of stack s are placed in
VpcsOf(s) ==
  {live[s][id].props.vpc : id \in {i \in DOMAIN live[s] : "vpc" \in DOMAIN live[s][i].props}}

\* C27: once both stacks of the stage are provisioned, every resource of
\* either that is placed in a network is placed in the one VPC of the
\* registry, Vpc.DevOregon, and the CIDR the database security group admits
\* is the CIDR of the network the service's cluster runs in.
C27_SameVpc ==
  (Provisioned("Data", "AuroraCluster") /\ Provisioned("Bookstack", "Cluster")) =>
    /\ VpcsOf("Data") = {Vpc.DevOregon}
    /\ VpcsOf("Bookstack") = {Vpc.DevOregon}
    /\ \A g \in live["Data"]["AuroraCluster"].props.securityGroups :
         \A rule \in live["Data"][g].props.ingress :
           rule.peer = PeerVpcCidr(live["Bookstack"]["Cluster"].props.vpc)

\* both stacks of the stage are provisioned and the deployment promoted
C27_Witness ==
  /\ Provisioned("Data", "AuroraCluster")
  /\ Provisioned("Bookstack", "Cluster")
  /\ applied["Bookstack"].rev = "head"
  /\ outcome = "Promoted"
  /\ live["Data"]["DBSecurityGroup"].props.ingress # {}

\* the host of a URL: what follows the scheme, where there is one
HostOf(url) == IF url # <<>> /\ url[1] = "https://" THEN Tail(url) ELSE url

\* C28: for every appEnv and zone the application stack is passed, the host
\* in APP_URL is the registry's AppUrl.DevOregon; where the stack declares a
\* certificate and an alias record, the certificate's domain name is that
\* hostname too, the record is in the zone passed, and, whenever the hostname
\* ends in "." zone, the record's name followed by "." zone is the hostname.
C28_OneHostName ==
  Declared =>
    LET app == eval.result["Bookstack"]
        zone == eval.props.zone
    IN /\ HostOf(app["BookstackService"].environment["APP_URL"].attr) = AppUrl.DevOregon
       /\ HasEdge(eval.rev) =>
            /\ app["AppCertificate"].domainName = AppUrl.DevOregon
            /\ app["AppAliasRecord"].zone = zone
            /\ EndsWith(AppUrl.DevOregon, <<".">> \o zone) =>
                 app["AppAliasRecord"].recordName \o <<".">> \o zone = AppUrl.DevOregon

\* the current declaration applied to a zone above the registry's
C28_Witness ==
  /\ Declared
  /\ eval.rev = "head"
  /\ eval.props.zone = <<"truemark", ".", "io">>
  /\ eval.result["Bookstack"]["AppAliasRecord"].recordName = <<"bookstack", ".", "pjain", ".", "dev">>

\* what is left of a stack's resources once the stack is torn down: the
\* resources declared with the RETAIN policy
Teardown(template) ==
  {id \in DOMAIN template : template[id].removalPolicy = RemovalPolicy.RETAIN}

\* C29: for every removalPolicy the data stack is passed, none included, the
\* credential secret is declared RETAIN, while the database security group,
\* the parameter group and the cluster are declared with the policy passed,
\* DESTROY when none is passed; the secret is among what a teardown leaves.
C29_SecretRetained ==
  Declared =>
    LET data == eval.result["Data"]
        passed == eval.props.removalPolicy
    IN /\ data["DatabaseSecret"].removalPolicy = RemovalPolicy.RETAIN
       /\ \A id \in {"DBSecurityGroup", "ParameterGroup", "AuroraCluster"} :
            data[id].removalPolicy =
              IF passed = "undefined" THEN RemovalPolicy.DESTROY ELSE passed
       /\ "DatabaseSecret" \in Teardown(data)

\* a data stack passed DESTROY: the teardown leaves the secret and nothing else
C29_Witness ==
  /\ Declared
  /\ eval.props.removalPolicy = RemovalPolicy.DESTROY
  /\ Teardown(eval.result["Data"]) = {"DatabaseSecret"}
====
